---------------------------- MODULE Spec2Model ----------------------------
(***************************************************************************)
(* State-machine model of the securities-engine program of psyto/meridian  *)
(* (programs/securities-engine): the Market registry, the constant-product *)
(* Pool, the Order life cycle and the leveraged Position.                  *)
(*                                                                         *)
(* Numbers.  The program computes on u64 / u128 / i128.  TLC's integers    *)
(* are 32 bits wide, so the model runs the same code on a narrower         *)
(* machine: token amounts are u64 values of a machine whose u64 ends at    *)
(* U64_MAX, and fixed-point prices (x PRICE_PRECISION) are u64 values that *)
(* end at U64_MAX whole units, i.e. at PRICE_U64_MAX.  Every `as u64`      *)
(* cast truncates, every saturating_* saturates, and every unchecked       *)
(* subtraction or division that can underflow or divide by zero aborts     *)
(* the instruction (the "Panic" outcome: Anchor builds the program with    *)
(* overflow-checks, and a division by zero aborts in every build).  u128   *)
(* intermediates that cannot overflow for u64 operands are exact.          *)
(*                                                                         *)
(* Atomicity.  A Solana instruction that returns an error or aborts        *)
(* commits nothing; each action below is one whole instruction.            *)
(***************************************************************************)
EXTENDS Integers, Naturals, Sequences, FiniteSets, TLC

\* ------------------------------------------------------------------------
\* Bounds of the model
\* ------------------------------------------------------------------------

\* Largest token amount a u64 of the model holds.
U64_MAX == 63

\* Mantissa width of the model's f64 (the `as f64` of calculate_lp_tokens).
F64_MANT_BITS == 5

\* The clock stops advancing here.
MaxTime == 1

\* Instructions executed in one behaviour.
MaxSteps == 3

\* ------------------------------------------------------------------------
\* Program constants
\* ------------------------------------------------------------------------

PRICE_PRECISION == 1000000

BPS_DENOMINATOR == 10000

MAINTENANCE_MARGIN_BPS == 500

SECONDS_PER_DAY == 86400

MIN_LEVERAGE == 1

MAX_LEVERAGE == 100

FUNDING_PERIOD_SECONDS == 28800

\* Largest fixed-point price a u64 of the model holds.
PRICE_U64_MAX == U64_MAX * PRICE_PRECISION

\* ------------------------------------------------------------------------
\* Machine arithmetic
\* ------------------------------------------------------------------------

Min(a, b) == IF a <= b THEN a ELSE b

Max(a, b) == IF a >= b THEN a ELSE b

\* v as u64, for a token amount: the low bits are kept.
AsU64(v) == v % (U64_MAX + 1)

\* v as u64, for a fixed-point price.
AsPriceU64(v) == v % (PRICE_U64_MAX + 1)

\* u64::saturating_add / saturating_sub on token amounts.
saturating_add(a, b) == Min(a + b, U64_MAX)

saturating_sub(a, b) == Max(a - b, 0)

\* u64::saturating_add / saturating_sub on prices.
price_saturating_add(a, b) == Min(a + b, PRICE_U64_MAX)

price_saturating_sub(a, b) == Max(a - b, 0)

RECURSIVE BitLen(_)
BitLen(v) == IF v = 0 THEN 0 ELSE 1 + BitLen(v \div 2)

RECURSIVE Pow2(_)
Pow2(e) == IF e = 0 THEN 1 ELSE 2 * Pow2(e - 1)

\* floor(sqrt(v)), by the search a square root is defined by.
RECURSIVE ISqrtFrom(_, _)
ISqrtFrom(v, r) == IF (r + 1) * (r + 1) > v THEN r ELSE ISqrtFrom(v, r + 1)

ISqrt(v) == ISqrtFrom(v, 0)

\* `v as f64` for a u128 v: round to nearest, ties to even, on a mantissa of
\* F64_MANT_BITS bits.
AsF64(v) ==
    LET b == BitLen(v) IN
    IF b <= F64_MANT_BITS THEN v
    ELSE LET unit == Pow2(b - F64_MANT_BITS)
             q    == v \div unit
             r    == v % unit
             half == unit \div 2
             up   == r > half \/ (r = half /\ q % 2 = 1)
         IN  (IF up THEN q + 1 ELSE q) * unit

\* `f.sqrt() as u64` for an integer-valued f64 f: the correctly rounded
\* square root, then truncated toward zero and saturated (float-to-int `as`).
F64SqrtAsU64(f) ==
    LET n == ISqrt(f)
        b == BitLen(n)
    IN  IF n * n = f THEN Min(n, U64_MAX)
        ELSE IF b <= F64_MANT_BITS
        THEN \* spacing of the floats below n+1 is 2/D: the root rounds up to
             \* n+1 iff it is within 1/D of it
             LET D == Pow2(F64_MANT_BITS + 1 - b) IN
             IF D * D * f >= (D * (n + 1) - 1) * (D * (n + 1) - 1)
             THEN Min(n + 1, U64_MAX) ELSE Min(n, U64_MAX)
        ELSE \* the floats around the root are multiples of unit >= 2
             LET unit == Pow2(b - F64_MANT_BITS)
                 c0   == (n \div unit) * unit
                 mid  == c0 + unit \div 2
                 q    == n \div unit
             IN  IF f > mid * mid THEN Min(c0 + unit, U64_MAX)
                 ELSE IF f < mid * mid THEN Min(c0, U64_MAX)
                 ELSE Min((IF q % 2 = 1 THEN c0 + unit ELSE c0), U64_MAX)

\* ------------------------------------------------------------------------
\* Outcomes of an instruction
\* ------------------------------------------------------------------------

\* SecuritiesError variants the modelled instructions return.
NamedErrors ==
    { "MarketNotActive", "InsufficientLiquidity", "SlippageExceeded",
      "InvalidAmount", "InsufficientCollateral", "InvalidLeverage",
      "MathOverflow" }

\* Option values of the helpers; "Panic" marks a helper that aborted.
None == [tag |-> "None"]

Panicked == [tag |-> "Panic"]

\* ------------------------------------------------------------------------
\* Market (state/market.rs)
\* ------------------------------------------------------------------------

MarketStatus == {"Active", "Paused", "Settling", "Closed"}

\* A variant of is_trading that reads the flag and forgets the status.
is_trading_FlagOnly(m) == m.is_active

\* Market::is_trading
is_trading(m) == m.is_active /\ m.status = "Active"

\* Market::calculate_fee
calculate_fee(m, amount) == AsU64((amount * m.trading_fee_bps) \div BPS_DENOMINATOR)

\* Market::update_volume with the window reset only after more than a day.
update_volume_StrictWindow(m, amount, current_time) ==
    LET m1 == [m EXCEPT !.total_volume = saturating_add(m.total_volume, amount)] IN
    IF current_time - m.volume_24h_reset > SECONDS_PER_DAY
    THEN [m1 EXCEPT !.volume_24h = amount, !.volume_24h_reset = current_time]
    ELSE [m1 EXCEPT !.volume_24h = saturating_add(m.volume_24h, amount)]

\* Market::update_volume
update_volume(m, amount, current_time) ==
    LET m1 == [m EXCEPT !.total_volume = saturating_add(m.total_volume, amount)] IN
    IF current_time - m.volume_24h_reset >= SECONDS_PER_DAY
    THEN [m1 EXCEPT !.volume_24h = amount, !.volume_24h_reset = current_time]
    ELSE [m1 EXCEPT !.volume_24h = saturating_add(m.volume_24h, amount)]

\* Market::calculate_protocol_fee.  The division by trading_fee_bps has no
\* guard, and the quotient is narrowed to u64 unchecked.
calculate_protocol_fee(m, fee) ==
    IF m.trading_fee_bps = 0 THEN Panicked
    ELSE [ tag   |-> "Some",
           value |-> AsU64((fee * m.protocol_fee_bps) \div m.trading_fee_bps) ]

\* initialize_market: the Market record the instruction writes.
initialize_market(params, unix_timestamp) ==
    [ status           |-> "Active",
      trading_fee_bps  |-> params.trading_fee_bps,
      protocol_fee_bps |-> params.protocol_fee_bps,
      min_trade_size   |-> params.min_trade_size,
      max_trade_size   |-> params.max_trade_size,
      total_volume     |-> 0,
      total_fees       |-> 0,
      volume_24h       |-> 0,
      volume_24h_reset |-> unix_timestamp,
      is_active        |-> TRUE,
      created_at       |-> unix_timestamp ]

\* ------------------------------------------------------------------------
\* Pool (state/pool.rs)
\* ------------------------------------------------------------------------

\* initialize_pool: the Pool record the instruction writes.
initialize_pool(unix_timestamp) ==
    [ security_liquidity        |-> 0,
      quote_liquidity           |-> 0,
      lp_supply                 |-> 0,
      accumulated_fees_security |-> 0,
      accumulated_fees_quote    |-> 0,
      twap                      |-> 0,
      twap_last_update          |-> unix_timestamp,
      cumulative_price          |-> 0,
      k_last                    |-> 0,
      is_active                 |-> TRUE,
      created_at                |-> unix_timestamp ]

\* Pool::get_spot_price
get_spot_price(p) ==
    IF p.security_liquidity = 0 THEN 0
    ELSE AsPriceU64((p.quote_liquidity * PRICE_PRECISION) \div p.security_liquidity)

\* A variant of calculate_swap_output that leaves the input out of the
\* denominator.
calculate_swap_output_NoInputInDenominator(p, input_amount, is_security_input, fee_bps) ==
    LET input_reserve  == IF is_security_input THEN p.security_liquidity
                                               ELSE p.quote_liquidity
        output_reserve == IF is_security_input THEN p.quote_liquidity
                                               ELSE p.security_liquidity
        fee            == (input_amount * fee_bps) \div BPS_DENOMINATOR
        input_with_fee == input_amount - fee
    IN  IF input_reserve = 0 \/ output_reserve = 0 THEN None
        ELSE IF fee > input_amount THEN Panicked
        ELSE [ tag    |-> "Some",
               output |-> AsU64((input_with_fee * output_reserve) \div input_reserve),
               fee    |-> AsU64(fee) ]

\* A variant of calculate_swap_output that prices the whole input, fee
\* included.
calculate_swap_output_GrossInput(p, input_amount, is_security_input, fee_bps) ==
    LET input_reserve  == IF is_security_input THEN p.security_liquidity
                                               ELSE p.quote_liquidity
        output_reserve == IF is_security_input THEN p.quote_liquidity
                                               ELSE p.security_liquidity
        fee            == (input_amount * fee_bps) \div BPS_DENOMINATOR
    IN  IF input_reserve = 0 \/ output_reserve = 0 THEN None
        ELSE IF fee > input_amount THEN Panicked
        ELSE [ tag    |-> "Some",
               output |-> AsU64((input_amount * output_reserve)
                                    \div (input_reserve + input_amount)),
               fee    |-> AsU64(fee) ]

\* Pool::calculate_swap_output.  `input_amount as u128 - fee` aborts when the
\* fee exceeds the input (fee_bps above 10000).
calculate_swap_output(p, input_amount, is_security_input, fee_bps) ==
    LET input_reserve  == IF is_security_input THEN p.security_liquidity
                                               ELSE p.quote_liquidity
        output_reserve == IF is_security_input THEN p.quote_liquidity
                                               ELSE p.security_liquidity
        fee            == (input_amount * fee_bps) \div BPS_DENOMINATOR
        input_with_fee == input_amount - fee
        numerator      == input_with_fee * output_reserve
        denominator    == input_reserve + input_with_fee
    IN  IF input_reserve = 0 \/ output_reserve = 0 THEN None
        ELSE IF fee > input_amount THEN Panicked
        ELSE [ tag    |-> "Some",
               output |-> AsU64(numerator \div denominator),
               fee    |-> AsU64(fee) ]

\* A variant of calculate_lp_tokens that takes the larger of the two ratios.
calculate_lp_tokens_Max(p, security_amount, quote_amount) ==
    IF p.lp_supply = 0
    THEN [ tag |-> "Some",
           lp  |-> F64SqrtAsU64(AsF64(security_amount * quote_amount)) ]
    ELSE IF p.security_liquidity = 0 \/ p.quote_liquidity = 0 THEN Panicked
    ELSE LET security_ratio == (security_amount * p.lp_supply) \div p.security_liquidity
             quote_ratio    == (quote_amount * p.lp_supply) \div p.quote_liquidity
         IN  [ tag |-> "Some", lp |-> AsU64(Max(security_ratio, quote_ratio)) ]

\* Pool::calculate_lp_tokens.  The proportional branch divides by the
\* reserves without a guard.
calculate_lp_tokens(p, security_amount, quote_amount) ==
    IF p.lp_supply = 0
    THEN [ tag |-> "Some",
           lp  |-> F64SqrtAsU64(AsF64(security_amount * quote_amount)) ]
    ELSE IF p.security_liquidity = 0 \/ p.quote_liquidity = 0 THEN Panicked
    ELSE LET security_ratio == (security_amount * p.lp_supply) \div p.security_liquidity
             quote_ratio    == (quote_amount * p.lp_supply) \div p.quote_liquidity
         IN  [ tag |-> "Some", lp |-> AsU64(Min(security_ratio, quote_ratio)) ]

\* A variant of calculate_withdraw_amounts that takes each share from the
\* other reserve.
calculate_withdraw_amounts_Crossed(p, lp_amount) ==
    IF p.lp_supply = 0 \/ lp_amount > p.lp_supply THEN None
    ELSE [ tag          |-> "Some",
           security_out |-> AsU64((lp_amount * p.quote_liquidity) \div p.lp_supply),
           quote_out    |-> AsU64((lp_amount * p.security_liquidity) \div p.lp_supply) ]

\* Pool::calculate_withdraw_amounts
calculate_withdraw_amounts(p, lp_amount) ==
    IF p.lp_supply = 0 \/ lp_amount > p.lp_supply THEN None
    ELSE [ tag          |-> "Some",
           security_out |-> AsU64((lp_amount * p.security_liquidity) \div p.lp_supply),
           quote_out    |-> AsU64((lp_amount * p.quote_liquidity) \div p.lp_supply) ]

\* floor(r * 10 ^ n / d) for r < d, digit by digit.
RECURSIVE DecimalDigits(_, _, _)
DecimalDigits(r, d, n) ==
    IF n = 0 THEN 0
    ELSE LET digit == (r * 10) \div d
             rest  == DecimalDigits((r * 10) % d, d, n - 1)
         IN  digit * (IF n = 1 THEN 1 ELSE IF n = 2 THEN 10 ELSE IF n = 3 THEN 100 ELSE 1000) + rest

\* floor(diff * 10000 / price), as the u128 expression computes it.
BpsOfPrice(diff, price) ==
    (diff \div price) * 10000 + DecimalDigits(diff % price, price, 4)

\* Pool::calculate_price_impact.  The effective price divides by the input
\* amount (security in) or by the computed output (quote in) without a
\* guard; the sentinel branch is taken only when calculate_swap_output
\* returns None.
calculate_price_impact(p, input_amount, is_security_input) ==
    LET current_price == get_spot_price(p)
        calc          == calculate_swap_output(p, input_amount, is_security_input, 0)
        divisor       == IF is_security_input THEN input_amount ELSE calc.output
        effective_price ==
            IF is_security_input
            THEN AsPriceU64((calc.output * PRICE_PRECISION) \div input_amount)
            ELSE AsPriceU64((input_amount * PRICE_PRECISION) \div calc.output)
    IN  IF current_price = 0 THEN [tag |-> "Some", value |-> 0]
        ELSE IF calc.tag = "None" THEN [tag |-> "Some", value |-> 10000]
        ELSE IF divisor = 0 THEN Panicked
        ELSE [ tag   |-> "Some",
               value |-> IF effective_price > current_price
                         THEN BpsOfPrice(effective_price - current_price, current_price)
                         ELSE BpsOfPrice(current_price - effective_price, current_price) ]

\* A variant of update_twap that takes the observation off the accumulator.
update_twap_Subtracting(p, current_time) ==
    LET time_elapsed  == current_time - p.twap_last_update
        current_price == get_spot_price(p)
        cumulative    == p.cumulative_price - current_price * time_elapsed
    IN  IF time_elapsed <= 0 \/ p.security_liquidity = 0 THEN p
        ELSE [ p EXCEPT !.cumulative_price = cumulative,
                        !.twap = AsPriceU64(cumulative \div (current_time - p.created_at)),
                        !.twap_last_update = current_time ]

\* Pool::update_twap
update_twap(p, current_time) ==
    LET time_elapsed  == current_time - p.twap_last_update
        current_price == get_spot_price(p)
        cumulative    == p.cumulative_price + current_price * time_elapsed
    IN  IF time_elapsed <= 0 \/ p.security_liquidity = 0 THEN p
        ELSE [ p EXCEPT !.cumulative_price = cumulative,
                        !.twap = AsPriceU64(cumulative \div (current_time - p.created_at)),
                        !.twap_last_update = current_time ]

\* ------------------------------------------------------------------------
\* The token ledger (the SPL token program the instructions call by CPI)
\* ------------------------------------------------------------------------

\* token::transfer from a user into a vault.  The token program refuses it
\* when the user does not hold the amount (funded = FALSE), and no user can
\* hold more than the mint's u64 supply leaves outside the vault.
token_transfer_in(vault_balance, amount, funded) ==
    IF funded /\ vault_balance + amount <= U64_MAX
    THEN [ok |-> TRUE, balance |-> vault_balance + amount]
    ELSE [ok |-> FALSE, balance |-> vault_balance]

\* token::transfer from a vault to a user, signed with the pool's seeds.
token_transfer_out(vault_balance, amount) ==
    IF amount <= vault_balance
    THEN [ok |-> TRUE, balance |-> vault_balance - amount]
    ELSE [ok |-> FALSE, balance |-> vault_balance]

\* token::mint_to on the LP mint: the mint's u64 supply is checked.
token_mint_to(mint_supply, amount) ==
    IF mint_supply + amount <= U64_MAX
    THEN [ok |-> TRUE, supply |-> mint_supply + amount]
    ELSE [ok |-> FALSE, supply |-> mint_supply]

\* ------------------------------------------------------------------------
\* Instructions (lib.rs), as functions of the accounts they are given
\* ------------------------------------------------------------------------

\* What an instruction that commits nothing leaves behind.
Rejected(err, m, p, v) ==
    [ result |-> err, market |-> m, pool |-> p, vaults |-> v,
      lp_tokens |-> 0, amount_out |-> 0, fee |-> 0 ]

\* A variant of add_liquidity_open that also asks the market to be trading.
add_liquidity_open_Trading(m, p) == p.is_active /\ is_trading(m)

\* add_liquidity's first require!: the pool, not the market, gates deposits.
add_liquidity_open(m, p) == p.is_active

\* A variant of trade_size_ok that reads max_trade_size = 0 as a bound.
trade_size_ok_ZeroIsBound(m, amount_in) ==
    /\ amount_in > 0
    /\ amount_in >= m.min_trade_size
    /\ amount_in <= m.max_trade_size

\* swap's require!s on amount_in: positive, at least min_trade_size, and at
\* most max_trade_size unless that is 0.
trade_size_ok(m, amount_in) ==
    /\ amount_in > 0
    /\ amount_in >= m.min_trade_size
    /\ (m.max_trade_size > 0 => amount_in <= m.max_trade_size)

\* add_liquidity(ctx, security_amount, quote_amount, min_lp_tokens)
add_liquidity(m, p, v, unix_timestamp, security_amount, quote_amount, min_lp_tokens, funded) ==
    LET lp   == calculate_lp_tokens(p, security_amount, quote_amount)
        tin1 == token_transfer_in(v.security_vault, security_amount, funded)
        tin2 == token_transfer_in(v.quote_vault, quote_amount, funded)
        mint == token_mint_to(v.lp_mint_supply, lp.lp)
        p1   == [ p EXCEPT
                    !.security_liquidity = saturating_add(p.security_liquidity, security_amount),
                    !.quote_liquidity    = saturating_add(p.quote_liquidity, quote_amount),
                    !.lp_supply          = saturating_add(p.lp_supply, lp.lp) ]
        p2   == [ p1 EXCEPT !.k_last = p1.security_liquidity * p1.quote_liquidity ]
    IN  IF ~add_liquidity_open(m, p) THEN Rejected("MarketNotActive", m, p, v)
        ELSE IF ~(security_amount > 0 /\ quote_amount > 0)
        THEN Rejected("InvalidAmount", m, p, v)
        ELSE IF lp.tag = "Panic" THEN Rejected("Panic", m, p, v)
        ELSE IF lp.tag = "None" THEN Rejected("MathOverflow", m, p, v)
        ELSE IF ~(lp.lp >= min_lp_tokens) THEN Rejected("SlippageExceeded", m, p, v)
        ELSE IF ~(tin1.ok /\ tin2.ok /\ mint.ok) THEN Rejected("TokenError", m, p, v)
        ELSE [ result     |-> "Ok",
               market     |-> m,
               pool       |-> update_twap(p2, unix_timestamp),
               vaults     |-> [ security_vault |-> tin1.balance,
                                quote_vault    |-> tin2.balance,
                                lp_mint_supply |-> mint.supply ],
               lp_tokens  |-> lp.lp,
               amount_out |-> 0,
               fee        |-> 0 ]

\* A variant of swap that adds the fee to both fee accumulators.
swap_FeeOnBothSides(m, p, v, unix_timestamp, amount_in, min_amount_out, is_security_input, funded) ==
    LET calc == calculate_swap_output(p, amount_in, is_security_input,
                                      m.trading_fee_bps)
        vin  == IF is_security_input THEN v.security_vault ELSE v.quote_vault
        vout == IF is_security_input THEN v.quote_vault ELSE v.security_vault
        tin  == token_transfer_in(vin, amount_in, funded)
        tout == token_transfer_out(vout, calc.output)
        p1   == IF is_security_input
                THEN [ p EXCEPT
                         !.security_liquidity = saturating_add(p.security_liquidity, amount_in),
                         !.quote_liquidity    = saturating_sub(p.quote_liquidity, calc.output),
                         !.accumulated_fees_security =
                             saturating_add(p.accumulated_fees_security, calc.fee),
                         !.accumulated_fees_quote =
                             saturating_add(p.accumulated_fees_quote, calc.fee) ]
                ELSE [ p EXCEPT
                         !.quote_liquidity    = saturating_add(p.quote_liquidity, amount_in),
                         !.security_liquidity = saturating_sub(p.security_liquidity, calc.output),
                         !.accumulated_fees_quote =
                             saturating_add(p.accumulated_fees_quote, calc.fee),
                         !.accumulated_fees_security =
                             saturating_add(p.accumulated_fees_security, calc.fee) ]
        volume == IF is_security_input THEN calc.output ELSE amount_in
        m1   == update_volume(m, volume, unix_timestamp)
        m2   == [ m1 EXCEPT !.total_fees = saturating_add(m1.total_fees, calc.fee) ]
    IN  IF ~is_trading(m) THEN Rejected("MarketNotActive", m, p, v)
        ELSE IF ~trade_size_ok(m, amount_in) THEN Rejected("InvalidAmount", m, p, v)
        ELSE IF calc.tag = "Panic" THEN Rejected("Panic", m, p, v)
        ELSE IF calc.tag = "None" THEN Rejected("InsufficientLiquidity", m, p, v)
        ELSE IF ~(calc.output >= min_amount_out) THEN Rejected("SlippageExceeded", m, p, v)
        ELSE IF ~(tin.ok /\ tout.ok) THEN Rejected("TokenError", m, p, v)
        ELSE [ result     |-> "Ok",
               market     |-> m2,
               pool       |-> update_twap(p1, unix_timestamp),
               vaults     |-> IF is_security_input
                              THEN [ v EXCEPT !.security_vault = tin.balance,
                                              !.quote_vault    = tout.balance ]
                              ELSE [ v EXCEPT !.quote_vault    = tin.balance,
                                              !.security_vault = tout.balance ],
               lp_tokens  |-> 0,
               amount_out |-> calc.output,
               fee        |-> calc.fee ]

\* swap(ctx, amount_in, min_amount_out, is_security_input)
swap(m, p, v, unix_timestamp, amount_in, min_amount_out, is_security_input, funded) ==
    LET calc == calculate_swap_output(p, amount_in, is_security_input,
                                      m.trading_fee_bps)
        vin  == IF is_security_input THEN v.security_vault ELSE v.quote_vault
        vout == IF is_security_input THEN v.quote_vault ELSE v.security_vault
        tin  == token_transfer_in(vin, amount_in, funded)
        tout == token_transfer_out(vout, calc.output)
        p1   == IF is_security_input
                THEN [ p EXCEPT
                         !.security_liquidity = saturating_add(p.security_liquidity, amount_in),
                         !.quote_liquidity    = saturating_sub(p.quote_liquidity, calc.output),
                         !.accumulated_fees_security =
                             saturating_add(p.accumulated_fees_security, calc.fee) ]
                ELSE [ p EXCEPT
                         !.quote_liquidity    = saturating_add(p.quote_liquidity, amount_in),
                         !.security_liquidity = saturating_sub(p.security_liquidity, calc.output),
                         !.accumulated_fees_quote =
                             saturating_add(p.accumulated_fees_quote, calc.fee) ]
        volume == IF is_security_input THEN calc.output ELSE amount_in
        m1   == update_volume(m, volume, unix_timestamp)
        m2   == [ m1 EXCEPT !.total_fees = saturating_add(m1.total_fees, calc.fee) ]
    IN  IF ~is_trading(m) THEN Rejected("MarketNotActive", m, p, v)
        ELSE IF ~trade_size_ok(m, amount_in) THEN Rejected("InvalidAmount", m, p, v)
        ELSE IF calc.tag = "Panic" THEN Rejected("Panic", m, p, v)
        ELSE IF calc.tag = "None" THEN Rejected("InsufficientLiquidity", m, p, v)
        ELSE IF ~(calc.output >= min_amount_out) THEN Rejected("SlippageExceeded", m, p, v)
        ELSE IF ~(tin.ok /\ tout.ok) THEN Rejected("TokenError", m, p, v)
        ELSE [ result     |-> "Ok",
               market     |-> m2,
               pool       |-> update_twap(p1, unix_timestamp),
               vaults     |-> IF is_security_input
                              THEN [ v EXCEPT !.security_vault = tin.balance,
                                              !.quote_vault    = tout.balance ]
                              ELSE [ v EXCEPT !.quote_vault    = tin.balance,
                                              !.security_vault = tout.balance ],
               lp_tokens  |-> 0,
               amount_out |-> calc.output,
               fee        |-> calc.fee ]

\* ------------------------------------------------------------------------
\* Position (state/position.rs) and open_position
\* ------------------------------------------------------------------------

\* The Position account before open_position initialises it.
NoPosition ==
    [ side |-> "Long", size |-> 0, entry_price |-> 0, leverage |-> 0,
      collateral |-> 0, accumulated_funding |-> 0, last_funding_update |-> 0,
      liquidation_price |-> 0, is_open |-> FALSE ]

\* A variant of calculate_liquidation_price whose loss budget stops at 0
\* instead of aborting.
calculate_liquidation_price_SaturatingLoss(pos) ==
    LET maintenance_margin == (pos.size * MAINTENANCE_MARGIN_BPS) \div BPS_DENOMINATOR
        max_loss           == saturating_sub(pos.collateral, maintenance_margin)
        price_move         == (max_loss * PRICE_PRECISION) \div pos.size
    IN  IF pos.size = 0 THEN Panicked
        ELSE [ tag   |-> "Some",
               price |-> IF pos.side = "Long"
                         THEN price_saturating_sub(pos.entry_price, AsPriceU64(price_move))
                         ELSE price_saturating_add(pos.entry_price, AsPriceU64(price_move)) ]

\* Position::calculate_liquidation_price.  `collateral as u128 -
\* maintenance_margin` aborts when the margin exceeds the collateral, and the
\* division aborts when size is 0.
calculate_liquidation_price(pos) ==
    LET maintenance_margin == (pos.size * MAINTENANCE_MARGIN_BPS) \div BPS_DENOMINATOR
        max_loss           == pos.collateral - maintenance_margin
        price_move         == (max_loss * PRICE_PRECISION) \div pos.size
    IN  IF maintenance_margin > pos.collateral \/ pos.size = 0 THEN Panicked
        ELSE [ tag   |-> "Some",
               price |-> IF pos.side = "Long"
                         THEN price_saturating_sub(pos.entry_price, AsPriceU64(price_move))
                         ELSE price_saturating_add(pos.entry_price, AsPriceU64(price_move)) ]

\* Signed integer division as the machine does it: toward zero.
TruncDiv(a, b) == IF a >= 0 THEN a \div b ELSE -((-a) \div b)

\* Position::calculate_pnl
calculate_pnl(pos, current_price) ==
    LET price_diff == current_price - pos.entry_price
        pnl == IF pos.side = "Long"
               THEN TruncDiv(pos.size * price_diff, PRICE_PRECISION)
               ELSE TruncDiv(pos.size * (-price_diff), PRICE_PRECISION)
    IN  pnl + pos.accumulated_funding

\* Position::is_liquidatable
is_liquidatable(pos, current_price) ==
    LET pnl                == calculate_pnl(pos, current_price)
        equity             == pos.collateral + pnl
        maintenance_margin == (pos.size * MAINTENANCE_MARGIN_BPS) \div 10000
    IN  equity < maintenance_margin

\* A variant of margin_ratio that takes the equity against the collateral.
margin_ratio_OfCollateral(pos, current_price) ==
    LET pnl    == calculate_pnl(pos, current_price)
        equity == AsU64(Max(pos.collateral + pnl, 0))
    IN  IF pos.size = 0 THEN 10000
        ELSE IF pos.collateral = 0 THEN 0
        ELSE (equity * 10000) \div pos.collateral

\* Position::margin_ratio.  The quotient is in basis points and is kept
\* exact: its narrowing to u64 changes only quotients of 2^64 or more.
margin_ratio(pos, current_price) ==
    LET pnl    == calculate_pnl(pos, current_price)
        equity == AsU64(Max(pos.collateral + pnl, 0))
    IN  IF pos.size = 0 THEN 10000
        ELSE (equity * 10000) \div pos.size

\* A variant of apply_funding that also recomputes the liquidation price
\* from the collateral net of the funding paid.
apply_funding_Reprice(pos, funding_rate, current_time) ==
    LET time_elapsed == current_time - pos.last_funding_update
        funding == TruncDiv(pos.size * funding_rate * time_elapsed, FUNDING_PERIOD_SECONDS)
        acc     == pos.accumulated_funding + (IF pos.side = "Long" THEN -funding ELSE funding)
    IN  [ pos EXCEPT !.accumulated_funding = acc,
                     !.last_funding_update = current_time,
                     !.liquidation_price = Max(0, pos.liquidation_price + acc) ]

\* Position::apply_funding
apply_funding(pos, funding_rate, current_time) ==
    LET time_elapsed == current_time - pos.last_funding_update
        funding == TruncDiv(pos.size * funding_rate * time_elapsed, FUNDING_PERIOD_SECONDS)
    IN  IF time_elapsed <= 0 THEN pos
        ELSE [ pos EXCEPT
                 !.accumulated_funding = pos.accumulated_funding
                      + (IF pos.side = "Long" THEN -funding ELSE funding),
                 !.last_funding_update = current_time ]

\* open_position(ctx, params)
open_position(m, pos, unix_timestamp, params, funded) ==
    LET required_collateral == params.size \div params.leverage
        pos1 == [ side                |-> params.side,
                  size                |-> params.size,
                  entry_price         |-> params.entry_price,
                  leverage            |-> params.leverage,
                  collateral          |-> params.collateral,
                  accumulated_funding |-> 0,
                  last_funding_update |-> unix_timestamp,
                  liquidation_price   |-> 0,
                  is_open             |-> FALSE ]
        liq  == calculate_liquidation_price(pos1)
    IN  IF ~is_trading(m) THEN [result |-> "MarketNotActive", position |-> pos]
        ELSE IF ~(params.leverage >= MIN_LEVERAGE /\ params.leverage <= MAX_LEVERAGE)
        THEN [result |-> "InvalidLeverage", position |-> pos]
        ELSE IF ~(params.collateral >= required_collateral)
        THEN [result |-> "InsufficientCollateral", position |-> pos]
        ELSE IF ~funded THEN [result |-> "TokenError", position |-> pos]
        ELSE IF liq.tag = "Panic" THEN [result |-> "Panic", position |-> pos]
        ELSE [ result   |-> "Ok",
               position |-> [ pos1 EXCEPT !.liquidation_price = liq.price,
                                          !.is_open = TRUE ] ]

\* ------------------------------------------------------------------------
\* Order (state/order.rs)
\* ------------------------------------------------------------------------

OrderStatus == {"Open", "PartiallyFilled", "Filled", "Cancelled", "Expired"}

\* Largest u128 of the model's machine.
U128_MAX == (U64_MAX + 1) * (U64_MAX + 1) - 1

\* Order::is_active
is_active(o) == o.status \in {"Open", "PartiallyFilled"}

\* Order::is_expired
is_expired(o, current_time) == o.expires_at > 0 /\ current_time >= o.expires_at

\* A variant of can_match that treats a stop-limit order as a limit order.
can_match_StopLimitAsLimit(o, current_price) ==
    IF ~is_active(o) THEN FALSE
    ELSE IF o.order_type = "Market" THEN TRUE
    ELSE IF o.order_type \in {"Limit", "StopLimit", "TakeProfit"}
    THEN (IF o.side = "Buy" THEN current_price <= o.price ELSE current_price >= o.price)
    ELSE (IF o.side = "Buy" THEN current_price >= o.price ELSE current_price <= o.price)

\* Order::can_match
can_match(o, current_price) ==
    IF ~is_active(o) THEN FALSE
    ELSE CASE o.order_type = "Market" -> TRUE
           [] o.order_type = "Limit" ->
                IF o.side = "Buy" THEN current_price <= o.price ELSE current_price >= o.price
           [] o.order_type \in {"StopMarket", "StopLimit"} ->
                IF o.side = "Buy" THEN current_price >= o.price ELSE current_price <= o.price
           [] o.order_type = "TakeProfit" ->
                IF o.side = "Buy" THEN current_price <= o.price ELSE current_price >= o.price

\* Order::fill.  The u128 sum of the two products aborts when it overflows.
fill(o, amount, price) ==
    LET total_value == o.avg_fill_price * o.filled_size + price * amount
        filled      == saturating_add(o.filled_size, amount)
        remaining   == saturating_sub(o.remaining_size, amount)
    IN  IF total_value > U128_MAX THEN [result |-> "Panic", order |-> o]
        ELSE [ result |-> "Ok",
               order  |-> [ o EXCEPT
                   !.filled_size    = filled,
                   !.remaining_size = remaining,
                   !.avg_fill_price = IF filled > 0 THEN AsU64(total_value \div filled)
                                                    ELSE o.avg_fill_price,
                   !.status         = IF remaining = 0 THEN "Filled"
                                                       ELSE "PartiallyFilled" ] ]

\* ------------------------------------------------------------------------
\* Authority-gated market status calls and order life-cycle calls
\* ------------------------------------------------------------------------

\* pause: the authority stops trading on the market.
pause(m) == [m EXCEPT !.status = "Paused"]

\* resume: the authority re-opens the market.
resume(m) == [m EXCEPT !.status = "Active"]

\* submit: a new order, nothing filled.
submit(side, order_type, price, size, expires_at) ==
    [ side |-> side, order_type |-> order_type, price |-> price,
      original_size |-> size, remaining_size |-> size, filled_size |-> 0,
      avg_fill_price |-> 0, status |-> "Open", expires_at |-> expires_at ]

\* cancel: the owner withdraws an active order.
cancel(o) == IF is_active(o) THEN [o EXCEPT !.status = "Cancelled"] ELSE o

\* The periodic expiry process: an active order past its expiry is Expired.
expire(o, current_time) ==
    IF is_active(o) /\ is_expired(o, current_time)
    THEN [o EXCEPT !.status = "Expired"] ELSE o

\* ------------------------------------------------------------------------
\* State
\* ------------------------------------------------------------------------

VARIABLES
    market,     \* the Market account
    pool,       \* the Pool account
    vaults,     \* the token accounts of the last committed add_liquidity or swap, as it left them
    position,   \* the Position account of one (owner, market)
    order,      \* one Order account
    now,        \* Clock::get()?.unix_timestamp
    steps,      \* instructions executed so far
    last,       \* the last instruction: its name, its outcome and the event it emitted
    provider,   \* the latest liquidity deposit and whether a swap followed it
    txs,        \* per caller, the transaction it has in flight: the accounts it loaded and its call
    log         \* the calls that committed, in commit order

vars == <<market, pool, vaults, position, order, now, steps, last, provider, txs, log>>

\* ------------------------------------------------------------------------
\* Inputs
\* ------------------------------------------------------------------------

\* initialize_market stores its parameters unvalidated (trading_fee_bps is
\* any u16): a fee-free market without trade-size bounds, a market with a
\* 25% fee and bounds [2, 11], and a market whose fee exceeds 100%.
MarketParamChoices ==
    { [trading_fee_bps |-> 30,    protocol_fee_bps |-> 10,  min_trade_size |-> 0, max_trade_size |-> 0],
      [trading_fee_bps |-> 2500,  protocol_fee_bps |-> 500, min_trade_size |-> 2, max_trade_size |-> 11],
      [trading_fee_bps |-> 15000, protocol_fee_bps |-> 0,   min_trade_size |-> 0, max_trade_size |-> 0] }

\* Fee settings for the protocol's share of a fee: initialize_market stores
\* whatever it is given, a trading fee of 0 included.
FeeMarketParamChoices ==
    { [trading_fee_bps |-> t, protocol_fee_bps |-> p, min_trade_size |-> 0, max_trade_size |-> 0] :
        t \in {0, 30, 2500}, p \in {0, 10, 30} }

FeeAmounts == 0 .. U64_MAX

SwapAmounts == {0, 1, 5, 12}

MinOutChoices == {0, 3}

DepositAmounts == {0, 20, U64_MAX}

MinLpChoices == {0, 10}

\* OpenPositionParams: a sound 10x long and short, leverage outside
\* [1, 100], too little collateral, size 0, 100x with the least collateral
\* the instruction accepts, and a 5x short away from the price limit.
PositionParamChoices ==
    { [side |-> "Long",  size |-> 20, entry_price |-> PRICE_PRECISION, leverage |-> 10,  collateral |-> 2],
      [side |-> "Short", size |-> 20, entry_price |-> PRICE_U64_MAX,   leverage |-> 10,  collateral |-> 2],
      [side |-> "Long",  size |-> 20, entry_price |-> PRICE_PRECISION, leverage |-> 0,   collateral |-> 2],
      [side |-> "Long",  size |-> 20, entry_price |-> PRICE_PRECISION, leverage |-> 101, collateral |-> 40],
      [side |-> "Short", size |-> 20, entry_price |-> PRICE_PRECISION, leverage |-> 10,  collateral |-> 1],
      [side |-> "Long",  size |-> 0,  entry_price |-> PRICE_PRECISION, leverage |-> 1,   collateral |-> 0],
      [side |-> "Long",  size |-> 40, entry_price |-> PRICE_PRECISION, leverage |-> 100, collateral |-> 1],
      [side |-> "Short", size |-> 30, entry_price |-> 2 * PRICE_PRECISION, leverage |-> 5, collateral |-> 6],
      [side |-> "Long",  size |-> 60, entry_price |-> 32 * PRICE_PRECISION, leverage |-> 10, collateral |-> 6] }

\* Funding rates per 8 hours and the times a settlement is called with.
FundingRates == {-1000, 0, 1, 1000}

FundingTimes == {0, 1, 2, FUNDING_PERIOD_SECONDS \div 2, FUNDING_PERIOD_SECONDS}

OrderSides == {"Buy", "Sell"}

OrderTypes == {"Market", "Limit", "StopMarket", "StopLimit", "TakeProfit"}

OrderSizes == {0, 3, U64_MAX}

FillAmounts == {0, 1, 2, 4, U64_MAX}

FillPrices == {0, 7, U64_MAX}

MatchPrices == {0, 6, 7, 8, U64_MAX}

ExpiryChoices == {0, 1}

\* Callers whose transactions on the same pool are in flight together.
Callers == {"a", "b"}

\* The calls a caller sends: a and b are the two amounts of a deposit or
\* (amount_in, 0) of a swap, min is min_lp_tokens or min_amount_out.
ConcurrentCalls ==
    { [op |-> "add_liquidity", a |-> 20, b |-> 20, min |-> 0, sec |-> FALSE],
      [op |-> "add_liquidity", a |-> U64_MAX, b |-> 20, min |-> 0, sec |-> FALSE],
      [op |-> "swap", a |-> 5, b |-> 0, min |-> 0, sec |-> TRUE],
      [op |-> "swap", a |-> 5, b |-> 0, min |-> 3, sec |-> TRUE],
      [op |-> "swap", a |-> 12, b |-> 0, min |-> 0, sec |-> FALSE],
      [op |-> "swap", a |-> 1, b |-> 0, min |-> 0, sec |-> TRUE] }

\* No transaction in flight.
IdleTx == [pc |-> "idle"]

\* An instruction that fails emits no event.
NoEvent == [tag |-> "None"]

NoCall == [op |-> "none", result |-> "Ok", event |-> NoEvent]

NoProvider == [security_amount |-> 0, quote_amount |-> 0, lp_tokens |-> 0, swapped |-> FALSE]

DefaultOrder == submit("Buy", "Limit", 7, 3, 0)

\* ------------------------------------------------------------------------
\* Initial states: the accounts right after initialize_market and
\* initialize_pool at time 0, no position opened, one order submitted.
\* ------------------------------------------------------------------------

InitAccounts ==
    /\ \E params \in MarketParamChoices : market = initialize_market(params, 0)
    /\ pool = initialize_pool(0)
    /\ vaults = [security_vault |-> 0, quote_vault |-> 0, lp_mint_supply |-> 0]
    /\ position = NoPosition
    /\ now = 0
    /\ steps = 0
    /\ last = NoCall
    /\ provider = NoProvider
    /\ txs = [c \in Callers |-> IdleTx]
    /\ log = <<>>

Init ==
    /\ InitAccounts
    /\ order = DefaultOrder

\* A market of any fee setting initialize_market stores, for the fee split.
InitFee ==
    /\ \E params \in FeeMarketParamChoices : market = initialize_market(params, 0)
    /\ pool = initialize_pool(0)
    /\ vaults = [security_vault |-> 0, quote_vault |-> 0, lp_mint_supply |-> 0]
    /\ position = NoPosition
    /\ order = DefaultOrder
    /\ now = 0
    /\ steps = 0
    /\ last = NoCall
    /\ provider = NoProvider
    /\ txs = [c \in Callers |-> IdleTx]
    /\ log = <<>>

\* ------------------------------------------------------------------------
\* Actions: one per instruction
\* ------------------------------------------------------------------------

\* The cluster clock advances.
Tick ==
    /\ now < MaxTime
    /\ steps < MaxSteps
    /\ now' = now + 1
    /\ UNCHANGED <<market, pool, vaults, position, order, steps, last, provider, txs, log>>

Pause ==
    /\ steps < MaxSteps
    /\ market.status = "Active"
    /\ market' = pause(market)
    /\ steps' = steps + 1
    /\ last' = [op |-> "pause", result |-> "Ok", event |-> NoEvent]
    /\ UNCHANGED <<pool, vaults, position, order, now, provider, txs, log>>

Resume ==
    /\ steps < MaxSteps
    /\ market.status = "Paused"
    /\ market' = resume(market)
    /\ steps' = steps + 1
    /\ last' = [op |-> "resume", result |-> "Ok", event |-> NoEvent]
    /\ UNCHANGED <<pool, vaults, position, order, now, provider, txs, log>>

\* The token accounts a call runs on.  The AddLiquidity and Swap account
\* structs bind none of security_vault, quote_vault, lp_mint and
\* pool_authority to the pool, and the CPIs that mint LP tokens and pay out
\* of a vault are signed with the pool's own seeds, not with those of the
\* pool_authority that owns the vaults and the LP mint initialize_pool
\* created.  A call that succeeds therefore runs on accounts its caller
\* brought: vaults with room for what comes in and funds for what goes out,
\* and a mint the pool's seeds can sign for.  The reserves of the pool are
\* counters that no token balance bounds.
CallerAccounts(pays_out_quote) ==
    [ security_vault |-> IF pays_out_quote THEN 0 ELSE U64_MAX,
      quote_vault    |-> IF pays_out_quote THEN U64_MAX ELSE 0,
      lp_mint_supply |-> 0 ]

\* add_liquidity pays into both vaults.
DepositAccounts == [security_vault |-> 0, quote_vault |-> 0, lp_mint_supply |-> 0]

AddLiquidity ==
    /\ steps < MaxSteps
    /\ \E sa \in DepositAmounts, qa \in DepositAmounts, ml \in MinLpChoices, funded \in BOOLEAN :
          LET r == add_liquidity(market, pool, DepositAccounts, now, sa, qa, ml, funded) IN
          /\ steps' = steps + 1
          /\ market' = r.market
          /\ pool' = r.pool
          /\ vaults' = IF r.result = "Ok" THEN r.vaults ELSE vaults
          /\ last' = [ op |-> "add_liquidity", result |-> r.result,
                       event |-> IF r.result = "Ok"
                                 THEN [ tag |-> "LiquidityAdded",
                                        security_amount |-> sa, quote_amount |-> qa,
                                        lp_tokens |-> r.lp_tokens ]
                                 ELSE NoEvent ]
          /\ provider' = IF r.result = "Ok"
                         THEN [ security_amount |-> sa, quote_amount |-> qa,
                                lp_tokens |-> r.lp_tokens, swapped |-> FALSE ]
                         ELSE provider
    /\ UNCHANGED <<position, order, now, txs, log>>

SwapOf(amounts) ==
    /\ steps < MaxSteps
    /\ \E a \in amounts, mo \in MinOutChoices, sec \in BOOLEAN, funded \in BOOLEAN :
          LET r == swap(market, pool, CallerAccounts(sec), now, a, mo, sec, funded) IN
          /\ steps' = steps + 1
          /\ market' = r.market
          /\ pool' = r.pool
          /\ vaults' = IF r.result = "Ok" THEN r.vaults ELSE vaults
          /\ last' = [ op |-> "swap", result |-> r.result,
                       event |-> IF r.result = "Ok"
                                 THEN [ tag |-> "SwapExecuted",
                                        amount_in |-> a, amount_out |-> r.amount_out,
                                        fee |-> r.fee, is_security_input |-> sec ]
                                 ELSE NoEvent ]
          /\ provider' = IF r.result = "Ok" THEN [provider EXCEPT !.swapped = TRUE]
                                            ELSE provider
    /\ UNCHANGED <<position, order, now, txs, log>>

Swap == SwapOf(SwapAmounts)

\* The Position account is `init`: it is opened at most once.
OpenPosition ==
    /\ steps < MaxSteps
    /\ ~position.is_open
    /\ \E params \in PositionParamChoices, funded \in BOOLEAN :
          LET r == open_position(market, position, now, params, funded)
          IN  /\ steps' = steps + 1
              /\ position' = r.position
              /\ last' = [ op |-> "open_position", result |-> r.result,
                           event |-> IF r.result = "Ok"
                                     THEN [ tag |-> "PositionOpened", side |-> params.side,
                                            size |-> params.size,
                                            entry_price |-> params.entry_price,
                                            leverage |-> params.leverage ]
                                     ELSE NoEvent ]
    /\ UNCHANGED <<market, pool, vaults, order, now, provider, txs, log>>

Fill ==
    /\ steps < MaxSteps
    /\ \E amount \in FillAmounts, price \in FillPrices :
          LET r == fill(order, amount, price) IN
          /\ steps' = steps + 1
          /\ order' = r.order
          /\ last' = [ op |-> "fill", result |-> r.result, event |-> NoEvent ]
    /\ UNCHANGED <<market, pool, vaults, position, now, provider, txs, log>>

Cancel ==
    /\ steps < MaxSteps
    /\ order' = cancel(order)
    /\ last' = [op |-> "cancel", result |-> "Ok", event |-> NoEvent]
    /\ steps' = steps + 1
    /\ UNCHANGED <<market, pool, vaults, position, now, provider, txs, log>>

Expire ==
    /\ steps < MaxSteps
    /\ order' = expire(order, now)
    /\ last' = [op |-> "expire", result |-> "Ok", event |-> NoEvent]
    /\ steps' = steps + 1
    /\ UNCHANGED <<market, pool, vaults, position, now, provider, txs, log>>

\* The matcher asks whether the order can match at a price.  can_match
\* takes &self: it returns a value and writes nothing.
CanMatch ==
    /\ steps < MaxSteps
    /\ \E current_price \in MatchPrices :
          last' = [ op     |-> "can_match",
                    result |-> "Ok",
                    event  |-> [ tag |-> "CanMatch", current_price |-> current_price,
                                 value |-> can_match(order, current_price) ] ]
    /\ steps' = steps + 1
    /\ UNCHANGED <<market, pool, vaults, position, order, now, provider, txs, log>>

\* The expiry check is read at the current time.  is_expired takes &self.
IsExpired ==
    /\ steps < MaxSteps
    /\ last' = [ op     |-> "is_expired",
                 result |-> "Ok",
                 event  |-> [ tag |-> "IsExpired", current_time |-> now,
                              value |-> is_expired(order, now) ] ]
    /\ steps' = steps + 1
    /\ UNCHANGED <<market, pool, vaults, position, order, now, provider, txs, log>>

\* A variant of account_write_locked under which the runtime serialises
\* nothing.
account_write_locked_Never(t) == FALSE

\* Both instructions declare the pool account `mut`: the runtime runs a
\* transaction only while no other transaction that writes one of its
\* accounts is running.
account_write_locked(t) == \E c \in Callers : t[c].pc = "loaded"

\* The instruction a call names, run on the accounts given.
Execute(call, m, p, unix_timestamp) ==
    IF call.op = "swap"
    THEN swap(m, p, CallerAccounts(call.sec), unix_timestamp, call.a, call.min, call.sec, TRUE)
    ELSE add_liquidity(m, p, DepositAccounts, unix_timestamp, call.a, call.b, call.min, TRUE)

\* A caller's transaction is scheduled: the runtime takes the write lock and
\* the accounts are deserialised into the instruction's context.
Begin(c) ==
    /\ steps < MaxSteps
    /\ txs[c].pc = "idle"
    /\ ~account_write_locked(txs)
    /\ \E call \in ConcurrentCalls :
          txs' = [txs EXCEPT ![c] = [pc |-> "loaded", call |-> call,
                                     market |-> market, pool |-> pool]]
    /\ UNCHANGED <<market, pool, vaults, position, order, now, steps, last, provider, log>>

\* The instruction runs on the accounts it loaded; on success they are
\* serialised back and the transaction commits, on an error nothing is
\* written.  Either way the lock is released.
Finish(c) ==
    /\ txs[c].pc = "loaded"
    /\ LET call == txs[c].call
           r    == Execute(call, txs[c].market, txs[c].pool, now)
           ok   == r.result = "Ok"
       IN  /\ market' = IF ok THEN r.market ELSE market
           /\ pool' = IF ok THEN r.pool ELSE pool
           /\ vaults' = IF ok THEN r.vaults ELSE vaults
           /\ last' = [ op |-> call.op, result |-> r.result,
                        event |-> IF ~ok THEN NoEvent
                                  ELSE IF call.op = "swap"
                                  THEN [ tag |-> "SwapExecuted",
                                         amount_in |-> call.a, amount_out |-> r.amount_out,
                                         fee |-> r.fee, is_security_input |-> call.sec ]
                                  ELSE [ tag |-> "LiquidityAdded",
                                         security_amount |-> call.a, quote_amount |-> call.b,
                                         lp_tokens |-> r.lp_tokens ] ]
           /\ provider' = IF ~ok THEN provider
                          ELSE IF call.op = "swap" THEN [provider EXCEPT !.swapped = TRUE]
                          ELSE [ security_amount |-> call.a, quote_amount |-> call.b,
                                 lp_tokens |-> r.lp_tokens, swapped |-> FALSE ]
           /\ log' = IF ok THEN Append(log, [caller |-> c, call |-> call]) ELSE log
    /\ txs' = [txs EXCEPT ![c] = IdleTx]
    /\ steps' = steps + 1
    /\ UNCHANGED <<position, order, now>>

\* The protocol's share of a fee is computed for a market.
CalculateProtocolFee ==
    /\ steps < MaxSteps
    /\ \E fee \in FeeAmounts :
          LET r == calculate_protocol_fee(market, fee) IN
          /\ steps' = steps + 1
          /\ last' = [ op     |-> "calculate_protocol_fee",
                       result |-> IF r.tag = "Some" THEN "Ok" ELSE "Panic",
                       event  |-> IF r.tag = "Some"
                                  THEN [tag |-> "ProtocolFee", fee |-> fee, value |-> r.value]
                                  ELSE NoEvent ]
    /\ UNCHANGED <<market, pool, vaults, position, order, now, provider, txs, log>>

\* Funding is settled on the open position at a time the caller passes.
ApplyFunding ==
    /\ steps < MaxSteps
    /\ position.is_open
    /\ \E funding_rate \in FundingRates, current_time \in FundingTimes :
          /\ position' = apply_funding(position, funding_rate, current_time)
          /\ last' = [ op     |-> "apply_funding",
                       result |-> "Ok",
                       event  |-> [ tag |-> "FundingApplied", funding_rate |-> funding_rate,
                                    current_time |-> current_time ] ]
    /\ steps' = steps + 1
    /\ UNCHANGED <<market, pool, vaults, order, now, provider, txs, log>>

\* ------------------------------------------------------------------------
\* Specifications
\* ------------------------------------------------------------------------

\* The market and its pool.
Next ==
    \/ Tick
    \/ Pause
    \/ Resume
    \/ AddLiquidity
    \/ Swap

Spec == Init /\ [][Next]_vars

\* The market, its pool and the position opened on it.
NextEngine ==
    \/ Tick
    \/ Pause
    \/ Resume
    \/ AddLiquidity
    \/ Swap
    \/ OpenPosition

SpecEngine == Init /\ [][NextEngine]_vars

\* One order, from submission on.
InitOrder ==
    /\ InitAccounts
    /\ market.trading_fee_bps = 30
    /\ market.min_trade_size = 0
    /\ \E side \in OrderSides, type \in OrderTypes, price \in FillPrices, size \in OrderSizes, exp \in ExpiryChoices :
          order = submit(side, type, price, size, exp)

NextOrder ==
    \/ Tick
    \/ Fill
    \/ Cancel
    \/ Expire

SpecOrder == InitOrder /\ [][NextOrder]_vars

\* ------------------------------------------------------------------------
\* Properties
\* ------------------------------------------------------------------------

\* A step that executes one instruction named op.
Executes(op) == steps' = steps + 1 /\ last'.op = op

\* The reserve product.
Product(p) == p.security_liquidity * p.quote_liquidity

\* C1: over any sequence of swaps at the market's fee, the product
\* security_liquidity * quote_liquidity after each successful swap is at
\* least the product before it.
C1_ProductNonDecreasing ==
    [][ (Executes("swap") /\ last'.result = "Ok") => Product(pool') >= Product(pool) ]_vars

\* Fees have been taken on both sides: at least two swaps succeeded, one in
\* each direction, and the last of them paid out.
C1_Witness ==
    /\ last.op = "swap" /\ last.result = "Ok"
    /\ last.event.amount_out > 0
    /\ pool.accumulated_fees_security > 0
    /\ pool.accumulated_fees_quote > 0

\* C2: whatever amounts fill is called with, filled_size + remaining_size
\* equals original_size in every state the order reaches.
C2_FilledPlusRemainingIsOriginal ==
    order.filled_size + order.remaining_size = order.original_size

\* C3: an order that is Filled, Cancelled or Expired never becomes Open or
\* PartiallyFilled again, whatever is called on it, fill included.
C3_TerminalNeverReopens ==
    [][ order.status \in {"Filled", "Cancelled", "Expired"}
            => order'.status \notin {"Open", "PartiallyFilled"} ]_vars

\* C4: a swap, add_liquidity or open_position that does not succeed returns
\* one of the program's named errors, never a runtime fault, and leaves the
\* market, the pool, the vaults and the position as they were.  (A refusal
\* by the token program is the ledger's own error and is not counted.)
C4_RejectionsAreNamedAndClean ==
    [][ ( /\ \E op \in {"swap", "add_liquidity", "open_position"} : Executes(op)
          /\ last'.result # "Ok" )
        => ( /\ last'.result \in NamedErrors \cup {"TokenError"}
             /\ UNCHANGED <<market, pool, vaults, position>> ) ]_vars

\* The market is not trading: its status is not Active or its flag is off.
NotTrading(m) == ~(m.is_active /\ m.status = "Active")

\* C5: while the market's status is not Active, or its activity flag is
\* off, every swap and every open_position fails with MarketNotActive,
\* whatever its arguments: on the market as the run left it, and, each time
\* the status changed, on the same accounts under every non-trading status
\* and flag.
C5_NonTradingMarketRejects ==
    /\ [][ ( /\ Executes("swap") \/ Executes("open_position")
             /\ NotTrading(market) )
           => last'.result = "MarketNotActive" ]_vars
    /\ [](last.op \in {"none", "pause", "resume"} =>
          \A st \in MarketStatus, flag \in BOOLEAN :
            LET m == [market EXCEPT !.status = st, !.is_active = flag] IN
            NotTrading(m) =>
              /\ \A a \in SwapAmounts, mo \in MinOutChoices, sec \in BOOLEAN, funded \in BOOLEAN :
                    swap(m, pool, vaults, now, a, mo, sec, funded).result = "MarketNotActive"
              /\ \A params \in PositionParamChoices, funded \in BOOLEAN :
                    open_position(m, position, now, params, funded).result = "MarketNotActive")

\* A swap has just been refused on a paused market whose pool holds
\* liquidity on both sides.
C5_Witness ==
    /\ market.status = "Paused"
    /\ pool.security_liquidity > 0 /\ pool.quote_liquidity > 0
    /\ last.op = "swap" /\ last.result = "MarketNotActive"

\* C6: add_liquidity does not read the market's status: right after the
\* status changed, every deposit has the same outcome and the same effect
\* on the pool, the vaults and the LP mint as it would have under any other
\* status and flag, and it leaves the market as it was; it returns
\* MarketNotActive only for a pool that is not active.
C6_AddLiquidityIgnoresMarketStatus ==
    /\ (last.op = "add_liquidity" /\ last.result = "MarketNotActive") => ~pool.is_active
    /\ last.op \in {"none", "pause", "resume"} =>
         \A sa \in DepositAmounts, qa \in DepositAmounts, ml \in MinLpChoices, funded \in BOOLEAN :
            LET r1 == add_liquidity(market, pool, vaults, now, sa, qa, ml, funded) IN
            \A st \in MarketStatus, flag \in BOOLEAN :
               LET m2 == [market EXCEPT !.status = st, !.is_active = flag]
                   r2 == add_liquidity(m2, pool, vaults, now, sa, qa, ml, funded)
               IN  /\ r2.result = r1.result
                   /\ r2.pool = r1.pool
                   /\ r2.vaults = r1.vaults
                   /\ r2.lp_tokens = r1.lp_tokens
                   /\ r1.market = market
                   /\ r2.market = m2

\* A deposit has just succeeded on a paused market.
C6_Witness ==
    /\ market.status = "Paused"
    /\ last.op = "add_liquidity" /\ last.result = "Ok"
    /\ last.event.lp_tokens > 0

\* What the latest depositor would get for the LP tokens of that deposit.
ProviderShare == calculate_withdraw_amounts(pool, provider.lp_tokens)

\* C7: right after add_liquidity(A, B) returned L LP tokens,
\* calculate_withdraw_amounts(L) is Some((s, q)) with s <= A and q <= B; and
\* for any LP amount, calculate_withdraw_amounts is None when lp_supply is 0
\* or the amount exceeds lp_supply.
C7_WithdrawRightAfterDeposit ==
    /\ (last.op = "add_liquidity" /\ last.result = "Ok") =>
          LET w == calculate_withdraw_amounts(pool, last.event.lp_tokens) IN
          /\ w.tag = "Some"
          /\ w.security_out <= last.event.security_amount
          /\ w.quote_out <= last.event.quote_amount
    /\ \A l \in {0, 1, pool.lp_supply, pool.lp_supply + 1, U64_MAX} :
          (pool.lp_supply = 0 \/ l > pool.lp_supply)
              => calculate_withdraw_amounts(pool, l) = None

\* A deposit into a pool that already had liquidity has just returned LP
\* tokens whose share is short of the deposit on one side.
C7_Witness ==
    /\ last.op = "add_liquidity" /\ last.result = "Ok"
    /\ last.event.lp_tokens > 0
    /\ pool.lp_supply > last.event.lp_tokens
    /\ calculate_withdraw_amounts(pool, last.event.lp_tokens).security_out
          < last.event.security_amount

\* C8 as stated: after add_liquidity(A, B) returned L and any swaps by other
\* users, withdrawing L returns (s, q) with s <= A and q <= B, and equal to
\* (A, B) only if no swap intervened.
C8_ShareNeverExceedsDeposit ==
    provider.lp_tokens > 0 =>
       /\ ProviderShare.tag = "Some"
       /\ ProviderShare.security_out <= provider.security_amount
       /\ ProviderShare.quote_out <= provider.quote_amount
       /\ (/\ ProviderShare.security_out = provider.security_amount
           /\ ProviderShare.quote_out = provider.quote_amount) => ~provider.swapped

\* C8, amended: withdrawing the L tokens returns their pro-rata share of
\* the reserves as they stand, never more than the reserves; a swap leaves
\* lp_supply alone, never lowers the share on the side paid in and never
\* raises it on the side paid out, so after swaps the share can exceed the
\* deposit on the side paid in and only the side paid out stays bounded by
\* what it was.
C8_ShareFollowsReserves ==
    /\ [](provider.lp_tokens > 0 =>
            /\ ProviderShare.tag = "Some"
            /\ ProviderShare.security_out <= pool.security_liquidity
            /\ ProviderShare.quote_out <= pool.quote_liquidity)
    /\ [][ (Executes("swap") /\ last'.result = "Ok" /\ provider.lp_tokens > 0) =>
             LET before == calculate_withdraw_amounts(pool, provider.lp_tokens)
                 after  == calculate_withdraw_amounts(pool', provider.lp_tokens)
             IN  /\ pool'.lp_supply = pool.lp_supply
                 /\ after.tag = "Some"
                 /\ IF last'.event.is_security_input
                    THEN /\ after.security_out >= before.security_out
                         /\ after.quote_out <= before.quote_out
                    ELSE /\ after.quote_out >= before.quote_out
                         /\ after.security_out <= before.security_out ]_vars

\* After a swap that followed the deposit, the depositor's share exceeds the
\* deposit on one side.
C8_Witness ==
    /\ provider.lp_tokens > 0
    /\ provider.swapped
    /\ ProviderShare.tag = "Some"
    /\ \/ ProviderShare.security_out > provider.security_amount
       \/ ProviderShare.quote_out > provider.quote_amount

C10_SwapAmountAndSlippageChecks ==
    is_trading(market) =>
      \A a \in SwapAmounts, mo \in MinOutChoices, sec \in BOOLEAN :
        LET r           == swap(market, pool, vaults, now, a, mo, sec, TRUE)
            in_reserve  == IF sec THEN pool.security_liquidity ELSE pool.quote_liquidity
            out_reserve == IF sec THEN pool.quote_liquidity ELSE pool.security_liquidity
            fee         == (a * market.trading_fee_bps) \div 10000
            out         == ((a - fee) * out_reserve) \div (in_reserve + a - fee)
        IN  /\ ( \/ a = 0
                 \/ a < market.min_trade_size
                 \/ (market.max_trade_size > 0 /\ a > market.max_trade_size) )
               => r.result = "InvalidAmount"
            /\ (market.max_trade_size = 0 /\ a > 0 /\ a >= market.min_trade_size)
               => r.result # "InvalidAmount"
            /\ ( /\ a > 0
                 /\ a >= market.min_trade_size
                 /\ (market.max_trade_size > 0 => a <= market.max_trade_size)
                 /\ in_reserve > 0 /\ out_reserve > 0
                 /\ fee <= a
                 /\ out < mo )
               => r.result = "SlippageExceeded"

\* On a trading market with liquidity on both sides, a swap has just been
\* refused for paying out less than the caller's minimum.
C10_Witness ==
    /\ is_trading(market)
    /\ pool.security_liquidity > 0 /\ pool.quote_liquidity > 0
    /\ last.op = "swap" /\ last.result = "SlippageExceeded"


\* C11: a successful add_liquidity(security_amount, quote_amount) on a pool
\* whose lp_supply is 0 mints exactly floor(sqrt(security_amount *
\* quote_amount)) LP tokens.
C11_FirstDepositMintsFloorSqrt ==
    [][ (Executes("add_liquidity") /\ last'.result = "Ok" /\ pool.lp_supply = 0) =>
          last'.event.lp_tokens
             = ISqrt(last'.event.security_amount * last'.event.quote_amount) ]_vars


\* C12: no LP amount and no counter is silently truncated, wrapped or
\* clamped: whenever the LP amount min(floor(security_amount * lp_supply /
\* security_liquidity), floor(quote_amount * lp_supply / quote_liquidity))
\* of a deposit does not fit in 64 bits, or adding the deposit to a reserve
\* or the LP amount to lp_supply would pass 64 bits, add_liquidity returns
\* MathOverflow and changes nothing.
C12_OverflowingDepositIsRejected ==
    (pool.is_active /\ pool.security_liquidity > 0 /\ pool.quote_liquidity > 0) =>
      \A sa \in DepositAmounts \ {0}, qa \in DepositAmounts \ {0} :
        LET r  == add_liquidity(market, pool, DepositAccounts, now, sa, qa, 0, TRUE)
            lp == IF pool.lp_supply = 0 THEN ISqrt(sa * qa)
                  ELSE Min((sa * pool.lp_supply) \div pool.security_liquidity,
                           (qa * pool.lp_supply) \div pool.quote_liquidity)
        IN  (\/ lp > U64_MAX
             \/ pool.security_liquidity + sa > U64_MAX
             \/ pool.quote_liquidity + qa > U64_MAX
             \/ pool.lp_supply + lp > U64_MAX)
               => /\ r.result = "MathOverflow"
                  /\ r.pool = pool
                  /\ r.market = market


\* C13: on a trading market, open_position with leverage in [1, 100] and
\* collateral >= floor(size / leverage) succeeds and stores an open position
\* with zero accumulated funding whose liquidation_price is entry_price -
\* move (Long) or entry_price + move (Short), for move = floor((collateral -
\* floor(size * 500 / 10000)) * 1000000 / size), saturating at 0 and at the
\* 64-bit maximum; leverage outside [1, 100] gives InvalidLeverage, and a
\* smaller collateral gives InsufficientCollateral.
C13_OpenPositionOutcome ==
    (is_trading(market) /\ ~position.is_open) =>
      \A params \in PositionParamChoices :
        LET r == open_position(market, position, now, params, TRUE) IN
        IF ~(params.leverage >= 1 /\ params.leverage <= 100)
        THEN r.result = "InvalidLeverage"
        ELSE IF params.collateral < params.size \div params.leverage
        THEN r.result = "InsufficientCollateral"
        ELSE /\ r.result = "Ok"
             /\ r.position.is_open
             /\ r.position.accumulated_funding = 0
             /\ LET move == ((params.collateral - (params.size * 500) \div 10000) * 1000000)
                               \div params.size
                IN  r.position.liquidation_price =
                       IF params.side = "Long"
                       THEN Max(params.entry_price - move, 0)
                       ELSE Min(params.entry_price + move, PRICE_U64_MAX)


NextFee == CalculateProtocolFee

SpecFee == InitFee /\ [][NextFee]_vars

\* C14: for every market initialize_market accepts, calculate_protocol_fee
\* returns a value for every fee: it never divides by zero.
C14_ProtocolFeeAlwaysReturns ==
    /\ \A fee \in FeeAmounts : calculate_protocol_fee(market, fee).tag = "Some"
    /\ last.op = "calculate_protocol_fee" => last.result = "Ok"


NextPosition == Tick \/ OpenPosition \/ ApplyFunding

SpecPosition == Init /\ [][NextPosition]_vars

\* C15: for an open position and a constant rate, settling an interval with
\* one apply_funding call leaves the same accumulated_funding as settling it
\* with two calls, the first at any time in between.
C15_FundingIndependentOfSpacing ==
    position.is_open =>
      \A funding_rate \in FundingRates, t1 \in FundingTimes, t2 \in FundingTimes :
        (position.last_funding_update <= t1 /\ t1 <= t2) =>
          apply_funding(apply_funding(position, funding_rate, t1), funding_rate, t2).accumulated_funding
            = apply_funding(position, funding_rate, t2).accumulated_funding


\* Prices to probe a position at: its liquidation price, the prices next to
\* it, its entry price and the ends of the price range.
ProbePrices(pos) ==
    { p \in { pos.liquidation_price - 1, pos.liquidation_price, pos.liquidation_price + 1,
              pos.entry_price, 0, PRICE_U64_MAX } : p >= 0 /\ p <= PRICE_U64_MAX }

\* C16: for a position with zero accumulated funding the stored
\* liquidation_price is the threshold of is_liquidatable: a Long is
\* liquidatable at exactly the prices below it, a Short at exactly the
\* prices above it.
C16_LiquidationPriceIsThreshold ==
    (position.is_open /\ position.accumulated_funding = 0) =>
      \A p \in ProbePrices(position) :
        is_liquidatable(position, p)
          <=> IF position.side = "Long" THEN p < position.liquidation_price
                                        ELSE p > position.liquidation_price


\* C20: apply_funding changes no field of the position other than
\* accumulated_funding and last_funding_update, however many settlements
\* came before, and changes nothing at all when the time it is called with
\* is not after last_funding_update.
C20_ApplyFundingFrame ==
    [][ Executes("apply_funding") =>
          /\ position' = [ position EXCEPT
                             !.accumulated_funding = position'.accumulated_funding,
                             !.last_funding_update = position'.last_funding_update ]
          /\ last'.event.current_time <= position.last_funding_update
                => position' = position ]_vars

\* Funding has accrued on the position, and a settlement has just been
\* called with a time before the last one.
C20_Witness ==
    /\ last.op = "apply_funding"
    /\ position.is_open
    /\ position.accumulated_funding # 0
    /\ last.event.current_time < position.last_funding_update


\* C17: cumulative_price is the time-integral of the spot price.  Every
\* successful add_liquidity or swap leaves twap_last_update at the time of
\* the call, so before a call the pool still holds the reserves, and so the
\* spot price, of the whole interval since the previous mutating call (or
\* since creation): the call must add that price times the length of the
\* interval, and twap must be floor(cumulative_price / (now - created_at)).
C17_CumulativePriceIsIntegral ==
    [][ ((Executes("add_liquidity") \/ Executes("swap")) /\ last'.result = "Ok") =>
          /\ pool'.cumulative_price
                = pool.cumulative_price + get_spot_price(pool) * (now - pool.twap_last_update)
          /\ now > pool.created_at
                => pool'.twap = pool'.cumulative_price \div (now - pool.created_at) ]_vars


\* An order through its life, with the two read-only queries.
NextMatch ==
    \/ Tick
    \/ Fill
    \/ Cancel
    \/ Expire
    \/ CanMatch
    \/ IsExpired

SpecMatch == InitOrder /\ [][NextMatch]_vars

\* C18: can_match is false for a Filled, Cancelled or Expired order; for an
\* Open or PartiallyFilled one it is true for a Market order, price <= limit
\* (Buy) or price >= limit (Sell) for a Limit order, price >= trigger (Buy)
\* or price <= trigger (Sell) for StopMarket and StopLimit, and price <=
\* trigger (Buy) or price >= trigger (Sell) for TakeProfit; can_match and
\* is_expired leave the order as it was.
C18_CanMatchTable ==
    [][ /\ Executes("can_match") =>
             LET p     == last'.event.current_price
                 below == p <= order.price
                 above == p >= order.price
                 buy   == order.side = "Buy"
             IN  /\ order' = order
                 /\ order.status \in {"Filled", "Cancelled", "Expired"}
                       => last'.event.value = FALSE
                 /\ order.status \in {"Open", "PartiallyFilled"} =>
                       /\ order.order_type = "Market" => last'.event.value = TRUE
                       /\ order.order_type = "Limit"
                             => last'.event.value = ((buy /\ below) \/ (~buy /\ above))
                       /\ order.order_type \in {"StopMarket", "StopLimit"}
                             => last'.event.value = ((buy /\ above) \/ (~buy /\ below))
                       /\ order.order_type = "TakeProfit"
                             => last'.event.value = ((buy /\ below) \/ (~buy /\ above))
        /\ Executes("is_expired") => order' = order ]_vars

\* A partially filled stop-limit buy order has just been found matchable at
\* a price above its trigger.
C18_Witness ==
    /\ last.op = "can_match"
    /\ order.status = "PartiallyFilled"
    /\ order.order_type = "StopLimit" /\ order.side = "Buy"
    /\ last.event.current_price > order.price
    /\ last.event.value = TRUE


\* Transactions of several callers on one pool.
NextConcurrent ==
    \/ \E c \in Callers : Begin(c)
    \/ \E c \in Callers : Finish(c)

SpecConcurrent == Init /\ [][NextConcurrent]_vars

\* The accounts after running the calls one after the other, each on what
\* the one before it left.
RECURSIVE Serial(_, _, _)
Serial(calls, m, p) ==
    IF calls = <<>> THEN [market |-> m, pool |-> p]
    ELSE LET r == Execute(Head(calls).call, m, p, 0)
         IN  Serial(Tail(calls), r.market, r.pool)

\* The market as initialize_market wrote it.
MarketAtCreation ==
    initialize_market([ trading_fee_bps  |-> market.trading_fee_bps,
                        protocol_fee_bps |-> market.protocol_fee_bps,
                        min_trade_size   |-> market.min_trade_size,
                        max_trade_size   |-> market.max_trade_size ], 0)

C21_PriceImpactAlwaysReturns ==
    \A a \in SwapAmounts, sec \in BOOLEAN :
       LET r == calculate_price_impact(pool, a, sec) IN
       /\ r.tag = "Some"
       /\ calculate_swap_output(pool, a, sec, 0) = None => r.value = 10000


\* ------------------------------------------------------------------------
\* The volume counters of a market
\* ------------------------------------------------------------------------

\* When the market was created, relative to the creation of its pool.
MarketCreationTimes == {0 - SECONDS_PER_DAY, 1 - SECONDS_PER_DAY, 0}

\* Swap amounts that bring total_volume to the 64-bit limit within MaxSteps.
VolumeSwapAmounts == {0, 12, 40}

\* A pool created on a market that has existed for up to a day.
InitVolume ==
    /\ \E params \in MarketParamChoices, t \in MarketCreationTimes :
          market = initialize_market(params, t)
    /\ pool = initialize_pool(0)
    /\ vaults = [security_vault |-> 0, quote_vault |-> 0, lp_mint_supply |-> 0]
    /\ position = NoPosition
    /\ order = DefaultOrder
    /\ now = 0
    /\ steps = 0
    /\ last = NoCall
    /\ provider = NoProvider
    /\ txs = [c \in Callers |-> IdleTx]
    /\ log = <<>>

SwapVolume == SwapOf(VolumeSwapAmounts)

NextVolume == Tick \/ AddLiquidity \/ SwapVolume

SpecVolume == InitVolume /\ [][NextVolume]_vars

\* The quote-side amount of a swap: what it paid out when the security is
\* the input, what was paid in otherwise.
QuoteSideAmount(e) == IF e.is_security_input THEN e.amount_out ELSE e.amount_in

\* C22: each successful swap adds its quote-side amount to total_volume; if
\* now - volume_24h_reset >= 86400 it sets volume_24h to that amount and
\* volume_24h_reset to now, otherwise it adds the amount to volume_24h and
\* leaves volume_24h_reset unchanged.
C22_VolumeIsAdded ==
    [][ (Executes("swap") /\ last'.result = "Ok") =>
          LET v == QuoteSideAmount(last'.event) IN
          /\ market'.total_volume = market.total_volume + v
          /\ IF now - market.volume_24h_reset >= 86400
             THEN /\ market'.volume_24h = v
                  /\ market'.volume_24h_reset = now
             ELSE /\ market'.volume_24h = market.volume_24h + v
                  /\ market'.volume_24h_reset = market.volume_24h_reset ]_vars

\* C22, amended: total_volume becomes min(total_volume + amount, 2^64 - 1);
\* in a window that is not reset volume_24h becomes
\* min(volume_24h + amount, 2^64 - 1); the rest is as stated.
C22_VolumeIsAddedSaturating ==
    [][ (Executes("swap") /\ last'.result = "Ok") =>
          LET v == QuoteSideAmount(last'.event) IN
          /\ market'.total_volume = Min(market.total_volume + v, U64_MAX)
          /\ IF now - market.volume_24h_reset >= 86400
             THEN /\ market'.volume_24h = v
                  /\ market'.volume_24h_reset = now
             ELSE /\ market'.volume_24h = Min(market.volume_24h + v, U64_MAX)
                  /\ market'.volume_24h_reset = market.volume_24h_reset ]_vars

\* A swap has just opened a new 24h window on a market that had traded
\* before: the window holds this swap alone, the all-time counter more.
C22_Witness ==
    /\ last.op = "swap" /\ last.result = "Ok"
    /\ market.volume_24h_reset = now
    /\ market.created_at < now
    /\ market.volume_24h = QuoteSideAmount(last.event)
    /\ 0 < market.volume_24h
    /\ market.volume_24h < market.total_volume


\* ------------------------------------------------------------------------
\* A pool that has received a deposit
\* ------------------------------------------------------------------------

\* A deposit into the pool has succeeded.
Deposited == provider # NoProvider

\* C23: once a deposit has succeeded, both reserves and lp_supply are above
\* 0 in every state; every successful swap pays out less than the
\* output-side reserve; calculate_lp_tokens and calculate_swap_output never
\* divide by zero, and no swap fails with InsufficientLiquidity.
C23_FundedPoolStaysFunded ==
    [][ /\ Deposited' =>
             /\ pool'.security_liquidity > 0
             /\ pool'.quote_liquidity > 0
             /\ pool'.lp_supply > 0
             /\ \A sa \in DepositAmounts, qa \in DepositAmounts :
                   calculate_lp_tokens(pool', sa, qa).tag # "Panic"
             /\ \A a \in SwapAmounts, sec \in BOOLEAN :
                   calculate_swap_output(pool', a, sec, market'.trading_fee_bps) # None
        /\ (Deposited /\ Executes("swap")) =>
             /\ last'.result # "InsufficientLiquidity"
             /\ last'.result = "Ok" =>
                   last'.event.amount_out <
                      (IF last'.event.is_security_input THEN pool.quote_liquidity
                                                        ELSE pool.security_liquidity) ]_vars

\* A swap has just taken more than a third of the output-side reserve of a
\* pool that had received a deposit.
C23_Witness ==
    /\ Deposited
    /\ last.op = "swap" /\ last.result = "Ok"
    /\ last.event.amount_out * 2 >
          (IF last.event.is_security_input THEN pool.quote_liquidity
                                           ELSE pool.security_liquidity)


C25_FeeWithinInput ==
    /\ \A a \in SwapAmounts, sec \in BOOLEAN :
          /\ (a * market.trading_fee_bps) \div BPS_DENOMINATOR <= a
          /\ calculate_swap_output(pool, a, sec, market.trading_fee_bps).tag # "Panic"
    /\ (last.op = "swap" /\ last.result = "Ok") => last.event.fee <= last.event.amount_in


\* ------------------------------------------------------------------------
\* The margin of a position
\* ------------------------------------------------------------------------

\* C26: right after a successful open_position the position is not
\* liquidatable at its entry price: its collateral is at least the
\* maintenance margin floor(size * 500 / 10000), whatever leverage in
\* [1, 100] was accepted.
C26_NotLiquidatableAtEntry ==
    [][ (Executes("open_position") /\ last'.result = "Ok") =>
          /\ position'.leverage >= 1 /\ position'.leverage <= 100
          /\ ~is_liquidatable(position', position'.entry_price)
          /\ position'.collateral >= (position'.size * 500) \div 10000 ]_vars

\* A position has just been opened with the least collateral its leverage
\* allows.
C26_Witness ==
    /\ last.op = "open_position" /\ last.result = "Ok"
    /\ position.is_open
    /\ position.leverage > 1
    /\ position.collateral = position.size \div position.leverage


\* Prices to probe the margin of a position at: those of ProbePrices and a
\* move of 70000 against and with the entry price.
MarginPrices(pos) ==
    ProbePrices(pos) \cup
       { p \in {pos.entry_price - 70000, pos.entry_price + 70000} : p >= 0 /\ p <= PRICE_U64_MAX }

\* C28: for every open position and every price p, is_liquidatable(p)
\* implies margin_ratio(p) < 500.
C28_LiquidatableBelowMaintenance ==
    position.is_open =>
       \A p \in MarginPrices(position) :
          is_liquidatable(position, p) => margin_ratio(position, p) < 500

\* An open position is liquidatable at a price where it still has equity.
C28_Witness ==
    /\ position.is_open
    /\ \E p \in MarginPrices(position) :
          /\ is_liquidatable(position, p)
          /\ margin_ratio(position, p) > 0


\* ------------------------------------------------------------------------
\* The fee counters of a market and its pool
\* ------------------------------------------------------------------------

ClockReadings == (0 - 1) .. (MaxTime + 1)

\* C29: in every state created_at <= twap_last_update; twap_last_update and
\* cumulative_price never decrease; and update_twap divides by
\* now - created_at only when now > created_at.
C29_TwapClockIsMonotone ==
    [][ /\ pool'.created_at <= pool'.twap_last_update
        /\ pool'.twap_last_update >= pool.twap_last_update
        /\ pool'.cumulative_price >= pool.cumulative_price
        /\ \A t \in ClockReadings :
              (t - pool'.twap_last_update > 0 /\ pool'.security_liquidity # 0)
                 => t - pool'.created_at > 0 ]_vars

\* An observation has been accumulated after the creation of the pool.
C29_Witness ==
    /\ pool.twap_last_update > pool.created_at
    /\ pool.cumulative_price > 0
    /\ pool.twap > 0


\* ------------------------------------------------------------------------
\* The status a fill leaves
\* ------------------------------------------------------------------------

\* C30: after every fill, a PartiallyFilled order has 0 < filled_size and
\* remaining_size > 0, and a Filled order has remaining_size = 0: a fill
\* never marks an order PartiallyFilled without having filled anything.
C30_FillStatusMatchesSizes ==
    [][ (Executes("fill") /\ last'.result = "Ok") =>
          /\ order'.status = "PartiallyFilled" =>
                (0 < order'.filled_size /\ order'.remaining_size > 0)
          /\ order'.status = "Filled" => order'.remaining_size = 0 ]_vars

=============================================================================
